---- MODULE Spec2Model ----
(***************************************************************************)
(* SRTF CPU scheduling simulator.                                          *)
(*   srtf_logic.py : srtf_scheduling(processes)                            *)
(*   srtf_gui.py   : build_segments(gantt) and the expansion of segments   *)
(*                   back into a per-unit list in                          *)
(*                   SRTFApp._draw_gantt_with_animation; the button        *)
(*                   handlers add_process, clear_all, on_calculate and the *)
(*                   timer callback _animate_step                          *)
(* Sequences are 1-based here and 0-based in the source: gantt[k+1] is the *)
(* trace entry of tick k, procs[i+1] is procs[i] of the source.            *)
(***************************************************************************)
EXTENDS Integers, Sequences, FiniteSets, TLC

VARIABLES
    processes,      \* the caller's list, argument of srtf_scheduling
    pc,             \* position in srtf_scheduling
    procs,          \* the sorted list of copies
    n,              \* len(procs)
    remaining,      \* remaining[i]: remaining burst of procs[i]
    completed,      \* number of processes counted as completed
    t,              \* current tick
    gantt,          \* per-tick trace
    ret,            \* the returned tuple (procs, avg_wt, avg_tat, gantt)
    seg_pc,         \* position in build_segments / the expansion loop
    seg_in,         \* argument of build_segments
    segs,           \* build_segments: segs
    cur,            \* build_segments: cur
    start,          \* build_segments: start
    length,         \* build_segments: length
    seg_i,          \* build_segments: loop index i (0-based, as in the source)
    seg_k,          \* expansion loop: number of segments already expanded
    per_unit_list,  \* _draw_gantt_with_animation: per_unit_list
    self_processes, \* SRTFApp: self.processes
    stats_tree,     \* SRTFApp: rows of self.stats_tree
    canvas,         \* SRTFApp: items on self.gantt_canvas, in drawing order
    anim_state,     \* SRTFApp: self._anim_state ("per_unit" and "index")
    timers,         \* number of pending root.after(80, self._animate_step)
    message         \* the messagebox the last button handler showed

sched_vars == <<processes, pc, procs, n, remaining, completed, t, gantt, ret>>
seg_vars == <<seg_pc, seg_in, segs, cur, start, length, seg_i, seg_k, per_unit_list>>
gui_vars == <<self_processes, stats_tree, canvas, anim_state, timers, message>>
vars == <<processes, pc, procs, n, remaining, completed, t, gantt, ret,
          seg_pc, seg_in, segs, cur, start, length, seg_i, seg_k, per_unit_list,
          self_processes, stats_tree, canvas, anim_state, timers, message>>

----------------------------------------------------------------------------
(* Bounds of the explored inputs *)

MaxProcs == 3
MaxArrival == 1
MaxBurst == 3
MaxTraceLen == 4

(* Inputs that were not validated: up to MaxLooseProcs descriptors whose    *)
(* bursts go down to -MaxDeficit                                            *)
MaxLooseProcs == 2
MaxDeficit == 1

(* the longest queue of processes that all arrive at time 0 *)
MaxQueue == 7

(* The window: at most MaxGuiProcs processes are added before Clear All,    *)
(* at most MaxTimers timer callbacks are pending at a time                  *)
MaxGuiProcs == 2
MaxTimers == 2

(* min_rem = 10**9, the initial value of the minimum scan *)
MinRemInit == 1000000000

(* idx = -1, "no process selected" *)
NoIdx == -1

IdleLabel == "Idle"

PidNames == <<"P1", "P2", "P3", "P4", "P5", "P6", "P7", "P8", "P9">>

(* Horizon of the recorded time line: every explored input whose bursts are *)
(* all at most MaxBurst is finished strictly before it.                     *)
MaxTick == MaxProcs * MaxBurst + MaxArrival + 1

Arrivals == 0 .. MaxArrival

(* Valid bursts: positive integers.  Python integers are unbounded, so the  *)
(* value of the scan's initial minimum is a valid burst as well.            *)
Bursts == (1 .. MaxBurst) \cup {MinRemInit}

(* Descriptor list with the given arrivals and bursts; pids are unique *)
MakeInput(k, a, b) ==
    [i \in 1 .. k |-> [pid |-> PidNames[i], arrival |-> a[i], burst |-> b[i]]]

(* Valid inputs: arrival >= 0, burst > 0, unique pids *)
IsValidInput(ps) ==
    \E k \in 0 .. MaxProcs :
        \E a \in [1 .. k -> Arrivals], b \in [1 .. k -> Bursts] : ps = MakeInput(k, a, b)

----------------------------------------------------------------------------
(* Pure helpers of srtf_scheduling *)

(* variant: the caller's dict itself is put into procs, not a copy *)
CopyProc_SameObject(p, k) ==
    [pid |-> p.pid, arrival |-> p.arrival, burst |-> p.burst,
     has |-> FALSE, ct |-> 0, tat |-> 0, wt |-> 0, owner |-> k]

(* dict(p) for the k-th descriptor of the caller: a copy of the descriptor. *)
(* 'ct', 'tat', 'wt' are absent until the process completes (has = FALSE    *)
(* stands for the absent keys).  owner tells which dict object this is: 0   *)
(* for an object created by the call, k for the k-th dict of the caller.    *)
CopyProc(p, k) ==
    [pid |-> p.pid, arrival |-> p.arrival, burst |-> p.burst,
     has |-> FALSE, ct |-> 0, tat |-> 0, wt |-> 0, owner |-> 0]

(* variant: an element also goes before the elements with an equal key *)
GoesBefore_OrEqual(x, y) == x.arrival <= y.arrival

(* list.sort(key=arrival) is stable: an element goes after every element    *)
(* whose key is less than or equal to its own.                              *)
GoesBefore(x, y) == x.arrival < y.arrival

RECURSIVE InsertSorted(_, _)
InsertSorted(s, x) ==
    IF s = <<>> THEN <<x>>
    ELSE IF GoesBefore(x, s[Len(s)]) THEN Append(InsertSorted(SubSeq(s, 1, Len(s) - 1), x), s[Len(s)])
    ELSE Append(s, x)

RECURSIVE SortByArrival(_)
SortByArrival(s) ==
    IF s = <<>> THEN <<>>
    ELSE InsertSorted(SortByArrival(SubSeq(s, 1, Len(s) - 1)), s[Len(s)])

(* variant: the arrival test is left out *)
IsRunnable_IgnoresArrival(p, r, now) == r > 0

(* variant: the remaining burst is tested against zero with "!=" *)
IsRunnable_NonZero(p, r, now) == p.arrival <= now /\ r # 0

(* line 41: the process is runnable at tick now *)
IsRunnable(p, r, now) == p.arrival <= now /\ r > 0

(* variant: the comparison against the running minimum is not strict *)
IsSmaller_OrEqual(r, min_rem) == r <= min_rem

(* line 42: strict comparison against the running minimum *)
IsSmaller(r, min_rem) == r < min_rem

(* lines 38-44: scan i = 1 .. n in order, keeping the first strict minimum *)
RECURSIVE Scan(_, _, _, _, _, _)
Scan(ps, rem, now, i, min_rem, idx) ==
    IF i > Len(ps) THEN idx
    ELSE IF IsRunnable(ps[i], rem[i], now) /\ IsSmaller(rem[i], min_rem)
         THEN Scan(ps, rem, now, i + 1, rem[i], i)
         ELSE Scan(ps, rem, now, i + 1, min_rem, idx)

Select(ps, rem, now) == Scan(ps, rem, now, 1, MinRemInit, NoIdx)

(* variant: the loop stops one completion early *)
LoopCond_OneShort(c, k) == c < k - 1

(* line 37: the loop condition *)
LoopCond(c, k) == c < k

(* variant: a process counts as finished with one unit left *)
IsFinished_OneLeft(r) == r <= 1

(* line 55: the selected process has just finished *)
IsFinished(r) == r = 0

(* line 59 *)
Tat(finish, p) == finish - p.arrival

(* variant: operands of the subtraction swapped *)
Wt_Swapped(tat, p) == p.burst - tat

(* line 60 *)
Wt(tat, p) == tat - p.burst

(* lines 61-62 *)
Clamp(wt) == IF wt < 0 THEN 0 ELSE wt

(* variant: the finish tick is taken before t is advanced *)
Complete_StaleTick(p, finish) ==
    [p EXCEPT !.has = TRUE,
              !.ct = finish - 1,
              !.tat = Tat(finish - 1, p),
              !.wt = Clamp(Wt(Tat(finish - 1, p), p))]

(* lines 57-62: finish = t, then ct, tat and wt of the finished process *)
Complete(p, finish) ==
    [p EXCEPT !.has = TRUE,
              !.ct = finish,
              !.tat = Tat(finish, p),
              !.wt = Clamp(Wt(Tat(finish, p), p))]

(* lines 58-62 assign keys of the dict object procs[idx]: the caller's list *)
(* after the assignment.  It holds other objects unless rec is one of its   *)
(* own dicts.                                                               *)
StoreKeys(ps, rec) ==
    IF rec.owner = 0 THEN ps
    ELSE [ps EXCEPT ![rec.owner] =
              [pid |-> rec.pid, arrival |-> rec.arrival, burst |-> rec.burst,
               ct |-> rec.ct, tat |-> rec.tat, wt |-> rec.wt]]

(* lines 64-65: sum(p.get(key, 0) for p in procs) *)
RECURSIVE SumWt(_)
SumWt(ps) ==
    IF ps = <<>> THEN 0
    ELSE SumWt(SubSeq(ps, 1, Len(ps) - 1)) + (IF ps[Len(ps)].has THEN ps[Len(ps)].wt ELSE 0)

RECURSIVE SumTat(_)
SumTat(ps) ==
    IF ps = <<>> THEN 0
    ELSE SumTat(SubSeq(ps, 1, Len(ps) - 1)) + (IF ps[Len(ps)].has THEN ps[Len(ps)].tat ELSE 0)

(* Python floats are IEEE 754 binary64 numbers: a significand of            *)
(* MantissaBits binary digits, the first one 1, and an exponent.  A float   *)
(* >= 0 is kept as its significand, written as Limbs digits of LimbBits     *)
(* bits each with the most significant first, and its exponent: the value   *)
(* is significand * 2^(exp - (MantissaBits - 1)).  The operators are exact  *)
(* for operands below MaxOperand, which the totals and the counts of the    *)
(* bounded inputs are.                                                      *)
MantissaBits == 53

Limbs == 3

LimbBits == (MantissaBits + 1) \div Limbs

Base == 2 ^ LimbBits

TopBits == MantissaBits - (Limbs - 1) * LimbBits

MaxOperand == 2 ^ (31 - LimbBits)

FloatZero == [zero |-> TRUE, limbs |-> <<>>, exp |-> 0]

MakeFloat(limbs, e) == [zero |-> FALSE, limbs |-> limbs, exp |-> e]

(* number of binary digits of a natural number *)
RECURSIVE BitLen(_)
BitLen(v) == IF v = 0 THEN 0 ELSE 1 + BitLen(v \div 2)

(* the digit string x (its first digit may exceed Base) shifted right by    *)
(* s < LimbBits bits                                                        *)
ShiftRight(x, s) ==
    [i \in 1 .. Len(x) |->
        (IF i = 1 THEN 0 ELSE (x[i - 1] % (2 ^ s)) * (2 ^ (LimbBits - s)))
        + (x[i] \div (2 ^ s))]

(* round-to-nearest, ties-to-even: x is the significand cut off after       *)
(* MantissaBits digits, half the first digit that was cut off, more tells   *)
(* that a non-zero digit follows that one                                   *)
RoundNearestEven(x, half, more, e) ==
    LET up == half /\ (more \/ x[Limbs] % 2 = 1)
        s3 == x[3] + 1
        s2 == x[2] + (s3 \div Base)
        s1 == x[1] + (s2 \div Base)
    IN IF ~up THEN MakeFloat(x, e)
       ELSE IF s1 = 2 ^ TopBits
            THEN MakeFloat(<<2 ^ (TopBits - 1), 0, 0>>, e + 1)
            ELSE MakeFloat(<<s1, s2 % Base, s3 % Base>>, e)

(* int -> float, exact for 0 <= v < 2^31 *)
IntToFloat(v) ==
    LET len == BitLen(v)
    IN IF v = 0 THEN FloatZero
       ELSE IF len <= TopBits
            THEN MakeFloat(<<v * (2 ^ (TopBits - len)), 0, 0>>, len - 1)
            ELSE MakeFloat(<<v \div (2 ^ (len - TopBits)),
                             (v % (2 ^ (len - TopBits))) * (2 ^ (LimbBits - (len - TopBits))),
                             0>>, len - 1)

(* scale a / b by powers of two until b <= a < 2 * b: <<a, b, exponent>> *)
RECURSIVE NormDown(_, _, _)
NormDown(a, b, e) == IF a >= b THEN <<a, b, e>> ELSE NormDown(2 * a, b, e - 1)

RECURSIVE NormUp(_, _, _)
NormUp(a, b, e) == IF 2 * b > a THEN <<a, b, e>> ELSE NormUp(a, 2 * b, e + 1)

(* k digits (base Base) of the expansion of r / d, for r < d *)
RECURSIVE DivLimbs(_, _, _)
DivLimbs(r, d, k) ==
    IF k = 0 THEN <<>>
    ELSE <<(r * Base) \div d>> \o DivLimbs((r * Base) % d, d, k - 1)

(* what is left of r after those k digits *)
RECURSIVE DivRest(_, _, _)
DivRest(r, d, k) == IF k = 0 THEN r ELSE DivRest((r * Base) % d, d, k - 1)

(* a / b for integers a >= 0, b > 0: the float nearest to the quotient.     *)
(* The digits 1, q1, q2, q3 of the scaled quotient hold one bit more than   *)
(* MantissaBits + 1, so they are shifted right by Limbs * LimbBits + 1 -    *)
(* MantissaBits bits.                                                       *)
FloatDiv(a, b) ==
    IF a = 0 THEN FloatZero
    ELSE LET nm == IF a < b THEN NormDown(a, b, 0) ELSE NormUp(a, b, 0)
             q == <<nm[1] \div nm[2]>> \o DivLimbs(nm[1] % nm[2], nm[2], Limbs)
             rest == DivRest(nm[1] % nm[2], nm[2], Limbs)
             cut == Limbs * LimbBits + 1 - MantissaBits
             dropped == q[Limbs + 1] % (2 ^ cut)
         IN RoundNearestEven(Tail(ShiftRight(q, cut)),
                             dropped \div (2 ^ (cut - 1)) = 1,
                             dropped % (2 ^ (cut - 1)) # 0 \/ rest # 0,
                             nm[3])

(* k * x for an integer k > 0 and a float x: the float nearest to the       *)
(* product of float(k) and x                                                *)
FloatMulInt(k, x) ==
    IF x.zero THEN FloatZero
    ELSE LET c3 == k * x.limbs[3]
             c2 == k * x.limbs[2] + (c3 \div Base)
             c1 == k * x.limbs[1] + (c2 \div Base)
             product == <<c1, c2 % Base, c3 % Base>>
             cut == BitLen(c1) - TopBits
             dropped == product[Limbs] % (2 ^ cut)
         IN IF cut = 0 THEN MakeFloat(product, x.exp)
            ELSE RoundNearestEven(ShiftRight(product, cut),
                                  dropped \div (2 ^ (cut - 1)) = 1,
                                  dropped % (2 ^ (cut - 1)) # 0,
                                  x.exp + cut)

(* variant: integer (floor) division *)
Quotient_Floor(total, count) == IntToFloat(total \div count)

(* lines 66-67: total / n, a float *)
Quotient(total, count) == FloatDiv(total, count)

NoRet == [procs |-> <<>>, avg_wt |-> FloatZero, avg_tat |-> FloatZero, gantt |-> <<>>]

----------------------------------------------------------------------------
(* srtf_scheduling, one action per step *)

(* variant: the test for the empty list is missing, the call goes on *)
ReturnEmpty_FallsThrough ==
    /\ pc = "start"
    /\ processes = <<>>
    /\ procs' = <<>>
    /\ n' = 0
    /\ remaining' = <<>>
    /\ completed' = 0
    /\ t' = 0
    /\ gantt' = <<>>
    /\ pc' = "while"
    /\ UNCHANGED <<processes, ret>>
    /\ UNCHANGED seg_vars
    /\ UNCHANGED gui_vars

(* lines 19-21: empty input *)
ReturnEmpty ==
    /\ pc = "start"
    /\ processes = <<>>
    /\ pc' = "done"
    /\ ret' = [procs |-> <<>>, avg_wt |-> FloatZero, avg_tat |-> FloatZero, gantt |-> <<>>]
    /\ UNCHANGED <<processes, procs, n, remaining, completed, t, gantt>>
    /\ UNCHANGED seg_vars
    /\ UNCHANGED gui_vars

(* lines 19-35: copy, sort by arrival, initialise the loop state *)
Setup ==
    /\ pc = "start"
    /\ processes # <<>>
    /\ LET sorted == SortByArrival([i \in 1 .. Len(processes) |-> CopyProc(processes[i], i)])
       IN /\ procs' = sorted
          /\ n' = Len(sorted)
          /\ remaining' = [i \in 1 .. Len(sorted) |-> sorted[i].burst]
    /\ completed' = 0
    /\ t' = 0
    /\ gantt' = <<>>
    /\ pc' = "while"
    /\ UNCHANGED <<processes, ret>>
    /\ UNCHANGED seg_vars
    /\ UNCHANGED gui_vars

(* line 37: while completed < n *)
LoopTest ==
    /\ pc = "while"
    /\ pc' = IF LoopCond(completed, n) THEN "body" ELSE "averages"
    /\ UNCHANGED <<processes, procs, n, remaining, completed, t, gantt, ret>>
    /\ UNCHANGED seg_vars
    /\ UNCHANGED gui_vars

(* lines 38-49: nothing selected.  Once t has reached MaxTick the time line *)
(* is no longer recorded: every arrival is <= MaxArrival < MaxTick, so an   *)
(* idle iteration there reads exactly what the previous one read.           *)
IdleTick ==
    /\ pc = "body"
    /\ Select(procs, remaining, t) = NoIdx
    /\ gantt' = IF t < MaxTick THEN Append(gantt, IdleLabel) ELSE gantt
    /\ t' = IF t < MaxTick THEN t + 1 ELSE t
    /\ pc' = "while"
    /\ UNCHANGED <<processes, procs, n, remaining, completed, ret>>
    /\ UNCHANGED seg_vars
    /\ UNCHANGED gui_vars

(* lines 38-62: run the selected process for one tick *)
RunTick ==
    /\ pc = "body"
    /\ t < MaxTick
    /\ LET idx == Select(procs, remaining, t)
           rem1 == [remaining EXCEPT ![idx] = remaining[idx] - 1]
       IN /\ idx # NoIdx
          /\ gantt' = Append(gantt, procs[idx].pid)
          /\ remaining' = rem1
          /\ t' = t + 1
          /\ IF IsFinished(rem1[idx])
             THEN /\ completed' = completed + 1
                  /\ procs' = [procs EXCEPT ![idx] = Complete(procs[idx], t + 1)]
                  /\ processes' = StoreKeys(processes, Complete(procs[idx], t + 1))
             ELSE UNCHANGED <<completed, procs, processes>>
    /\ pc' = "while"
    /\ UNCHANGED <<n, ret>>
    /\ UNCHANGED seg_vars
    /\ UNCHANGED gui_vars

(* lines 64-69 *)
Return ==
    /\ pc = "averages"
    /\ ret' = [procs |-> procs,
               avg_wt |-> Quotient(SumWt(procs), n),
               avg_tat |-> Quotient(SumTat(procs), n),
               gantt |-> gantt]
    /\ pc' = "done"
    /\ UNCHANGED <<processes, procs, n, remaining, completed, t, gantt>>
    /\ UNCHANGED seg_vars
    /\ UNCHANGED gui_vars

----------------------------------------------------------------------------
(* build_segments(gantt) and the expansion of its result *)

Labels == {IdleLabel, PidNames[1], PidNames[2]}

(* [pid] * length *)
RECURSIVE Repeat(_, _)
Repeat(label, count) == IF count <= 0 THEN <<>> ELSE <<label>> \o Repeat(label, count - 1)

(* srtf_gui.py lines 277-279: per_unit_list.extend([pid]*length) per segment *)
RECURSIVE ExpandAll(_)
ExpandAll(ss) ==
    IF ss = <<>> THEN <<>>
    ELSE ExpandAll(SubSeq(ss, 1, Len(ss) - 1)) \o Repeat(ss[Len(ss)].label, ss[Len(ss)].length)

(* line 255: total_units = sum of the segments' lengths *)
RECURSIVE TotalUnits(_)
TotalUnits(ss) ==
    IF ss = <<>> THEN 0
    ELSE TotalUnits(SubSeq(ss, 1, Len(ss) - 1)) + ss[Len(ss)].length

Segment(label, first, count) == [label |-> label, start |-> first, length |-> count]

(* lines 35-36 *)
SegReturnEmpty ==
    /\ seg_pc = "call"
    /\ seg_in = <<>>
    /\ segs' = <<>>
    /\ seg_pc' = "built"
    /\ UNCHANGED <<seg_in, cur, start, length, seg_i, seg_k, per_unit_list>>
    /\ UNCHANGED sched_vars
    /\ UNCHANGED gui_vars

(* lines 37-40 *)
SegBegin ==
    /\ seg_pc = "call"
    /\ seg_in # <<>>
    /\ segs' = <<>>
    /\ cur' = seg_in[1]
    /\ start' = 0
    /\ length' = 1
    /\ seg_i' = 1
    /\ seg_pc' = "for"
    /\ UNCHANGED <<seg_in, seg_k, per_unit_list>>
    /\ UNCHANGED sched_vars
    /\ UNCHANGED gui_vars

(* lines 41-43: the label repeats *)
SegExtend ==
    /\ seg_pc = "for"
    /\ seg_i < Len(seg_in)
    /\ seg_in[seg_i + 1] = cur
    /\ length' = length + 1
    /\ seg_i' = seg_i + 1
    /\ UNCHANGED <<seg_pc, seg_in, segs, cur, start, seg_k, per_unit_list>>
    /\ UNCHANGED sched_vars
    /\ UNCHANGED gui_vars

(* variant: the new segment starts one index late *)
SegClose_StartsLate ==
    /\ seg_pc = "for"
    /\ seg_i < Len(seg_in)
    /\ seg_in[seg_i + 1] # cur
    /\ segs' = Append(segs, Segment(cur, start, length))
    /\ cur' = seg_in[seg_i + 1]
    /\ start' = seg_i + 1
    /\ length' = 1
    /\ seg_i' = seg_i + 1
    /\ UNCHANGED <<seg_pc, seg_in, seg_k, per_unit_list>>
    /\ UNCHANGED sched_vars
    /\ UNCHANGED gui_vars

(* lines 41, 44-48: the label changes *)
SegClose ==
    /\ seg_pc = "for"
    /\ seg_i < Len(seg_in)
    /\ seg_in[seg_i + 1] # cur
    /\ segs' = Append(segs, Segment(cur, start, length))
    /\ cur' = seg_in[seg_i + 1]
    /\ start' = seg_i
    /\ length' = 1
    /\ seg_i' = seg_i + 1
    /\ UNCHANGED <<seg_pc, seg_in, seg_k, per_unit_list>>
    /\ UNCHANGED sched_vars
    /\ UNCHANGED gui_vars

(* variant: the last open segment is not appended *)
SegReturn_DropsLast ==
    /\ seg_pc = "for"
    /\ seg_i >= Len(seg_in)
    /\ segs' = segs
    /\ seg_pc' = "built"
    /\ UNCHANGED <<seg_in, cur, start, length, seg_i, seg_k, per_unit_list>>
    /\ UNCHANGED sched_vars
    /\ UNCHANGED gui_vars

(* lines 49-50: close the last segment and return *)
SegReturn ==
    /\ seg_pc = "for"
    /\ seg_i >= Len(seg_in)
    /\ segs' = Append(segs, Segment(cur, start, length))
    /\ seg_pc' = "built"
    /\ UNCHANGED <<seg_in, cur, start, length, seg_i, seg_k, per_unit_list>>
    /\ UNCHANGED sched_vars
    /\ UNCHANGED gui_vars

(* _draw_gantt_with_animation lines 255-257: nothing to draw *)
DrawNothing ==
    /\ seg_pc = "built"
    /\ TotalUnits(segs) = 0
    /\ seg_pc' = "drawn"
    /\ UNCHANGED <<seg_in, segs, cur, start, length, seg_i, seg_k, per_unit_list>>
    /\ UNCHANGED sched_vars
    /\ UNCHANGED gui_vars

(* _draw_gantt_with_animation lines 277-279: one iteration of the expansion *)
ExpandStep ==
    /\ seg_pc = "built"
    /\ TotalUnits(segs) # 0
    /\ seg_k < Len(segs)
    /\ per_unit_list' = per_unit_list \o Repeat(segs[seg_k + 1].label, segs[seg_k + 1].length)
    /\ seg_k' = seg_k + 1
    /\ UNCHANGED <<seg_pc, seg_in, segs, cur, start, length, seg_i>>
    /\ UNCHANGED sched_vars
    /\ UNCHANGED gui_vars

(* the expansion loop is over *)
ExpandDone ==
    /\ seg_pc = "built"
    /\ TotalUnits(segs) # 0
    /\ seg_k >= Len(segs)
    /\ seg_pc' = "drawn"
    /\ UNCHANGED <<seg_in, segs, cur, start, length, seg_i, seg_k, per_unit_list>>
    /\ UNCHANGED sched_vars
    /\ UNCHANGED gui_vars

----------------------------------------------------------------------------
(* srtf_gui.py: the window SRTFApp.  One button handler or timer callback   *)
(* runs at a time (the Tk event loop); while on_calculate is inside         *)
(* srtf_scheduling or build_segments no other event is served.              *)

(* what the user may have typed into the three entries *)
PidTexts == {"", " ", "1", "P1", "P2 "}
AtTexts == {"0", "-1", "x"}
BtTexts == {"1", "2 ", "0", ""}

(* str.strip() *)
Strip(text) ==
    CASE text = " " -> ""
      [] text = "P2 " -> "P2"
      [] text = "2 " -> "2"
      [] OTHER -> text

(* int(text) succeeds *)
IsInt(text) == text \in {"0", "1", "2", "-1"}

(* int(text) *)
ParseInt(text) ==
    CASE text = "0" -> 0
      [] text = "1" -> 1
      [] text = "2" -> 2
      [] text = "-1" -> -1

(* lines 190-191: a pid of digits only gets the prefix P *)
FormatPid(pid) ==
    CASE pid = "1" -> "P1"
      [] OTHER -> pid

(* no handler is running: the event loop serves the next event *)
EventLoopIdle == pc = "off" /\ seg_pc = "off"

NoMessage == "none"

(* add_process, lines 174-201 *)
AddProcess ==
    /\ EventLoopIdle
    /\ \E pidText \in PidTexts, atText \in AtTexts, btText \in BtTexts :
          LET pid == Strip(pidText)
              at == Strip(atText)
              bt == Strip(btText)
          IN IF pid = ""
             THEN /\ message' = "Please enter Process ID (e.g. P1)."
                  /\ UNCHANGED self_processes
             ELSE IF ~(IsInt(at) /\ IsInt(bt))
             THEN /\ message' = "Arrival and Burst must be integers."
                  /\ UNCHANGED self_processes
             ELSE /\ Len(self_processes) < MaxGuiProcs
                  /\ self_processes' = Append(self_processes,
                         [pid |-> FormatPid(pid), arrival |-> ParseInt(at), burst |-> ParseInt(bt)])
                  /\ message' = NoMessage
    /\ UNCHANGED <<stats_tree, canvas, anim_state, timers>>
    /\ UNCHANGED sched_vars
    /\ UNCHANGED seg_vars

(* clear_all, lines 206-216 *)
ClearAll ==
    /\ EventLoopIdle
    /\ self_processes' = <<>>
    /\ stats_tree' = <<>>
    /\ canvas' = <<>>
    /\ message' = NoMessage
    /\ UNCHANGED <<anim_state, timers>>
    /\ UNCHANGED sched_vars
    /\ UNCHANGED seg_vars

(* on_calculate, lines 222-224: nothing was added *)
OnCalculateNoData ==
    /\ EventLoopIdle
    /\ self_processes = <<>>
    /\ message' = "Please add at least one process."
    /\ UNCHANGED <<self_processes, stats_tree, canvas, anim_state, timers>>
    /\ UNCHANGED sched_vars
    /\ UNCHANGED seg_vars

(* on_calculate, line 227: srtf_scheduling(self.processes.copy()) is entered *)
OnCalculate ==
    /\ EventLoopIdle
    /\ self_processes # <<>>
    /\ timers < MaxTimers
    /\ processes' = self_processes
    /\ pc' = "start"
    /\ message' = NoMessage
    /\ UNCHANGED <<procs, n, remaining, completed, t, gantt, ret>>
    /\ UNCHANGED <<self_processes, stats_tree, canvas, anim_state, timers>>
    /\ UNCHANGED seg_vars

(* one row of the results table, line 234 *)
StatsRow(p) == <<p.pid, p.arrival, p.burst, p.ct, p.tat, p.wt>>

(* on_calculate, lines 227-244: srtf_scheduling has returned; the results   *)
(* table is filled and build_segments(gantt) is entered                     *)
ShowResults ==
    /\ pc = "done"
    /\ seg_pc = "off"
    /\ stats_tree' = [i \in 1 .. Len(ret.procs) |-> StatsRow(ret.procs[i])]
    /\ seg_in' = ret.gantt
    /\ seg_pc' = "call"
    /\ processes' = <<>>
    /\ pc' = "off"
    /\ procs' = <<>>
    /\ n' = 0
    /\ remaining' = <<>>
    /\ completed' = 0
    /\ t' = 0
    /\ gantt' = <<>>
    /\ ret' = NoRet
    /\ UNCHANGED <<segs, cur, start, length, seg_i, seg_k, per_unit_list>>
    /\ UNCHANGED <<self_processes, canvas, anim_state, timers, message>>

(* the items _draw_gantt_with_animation and _animate_step put on the canvas *)
Outline == [kind |-> "outline", index |-> 0, label |-> ""]
Block(idx, pid) == [kind |-> "block", index |-> idx, label |-> pid]
TimeMarkers(units) == [kind |-> "markers", index |-> units, label |-> ""]

(* _animate_step, lines 300-323, on the canvas cv and the state st: the     *)
(* canvas, the state and the number of callbacks it schedules               *)
AnimateCanvas(cv, st) ==
    IF st.index >= Len(st.per_unit)
    THEN Append(cv, TimeMarkers(Len(st.per_unit)))
    ELSE Append(cv, Block(st.index, st.per_unit[st.index + 1]))

AnimateState(st) ==
    IF st.index >= Len(st.per_unit) THEN st ELSE [st EXCEPT !.index = st.index + 1]

AnimateAfter(st) == IF st.index >= Len(st.per_unit) THEN 0 ELSE 1

(* _draw_gantt_with_animation, lines 251 and 281-295, once per_unit_list is *)
(* built: the canvas is emptied (nothing reads it between line 251 and this *)
(* point), the animation state is replaced, the outline is drawn and        *)
(* _animate_step is called; on_calculate returns                            *)
StartAnimation ==
    /\ pc = "off"
    /\ seg_pc = "drawn"
    /\ TotalUnits(segs) # 0
    /\ LET st == [per_unit |-> per_unit_list, index |-> 0]
       IN /\ canvas' = AnimateCanvas(<<Outline>>, st)
          /\ anim_state' = AnimateState(st)
          /\ timers' = timers + AnimateAfter(st)
    /\ seg_pc' = "off"
    /\ seg_in' = <<>>
    /\ segs' = <<>>
    /\ cur' = IdleLabel
    /\ start' = 0
    /\ length' = 0
    /\ seg_i' = 0
    /\ seg_k' = 0
    /\ per_unit_list' = <<>>
    /\ UNCHANGED <<self_processes, stats_tree, message>>
    /\ UNCHANGED sched_vars

(* a pending root.after(80, self._animate_step) fires, lines 300-323 *)
TimerFires ==
    /\ EventLoopIdle
    /\ timers > 0
    /\ canvas' = AnimateCanvas(canvas, anim_state)
    /\ anim_state' = AnimateState(anim_state)
    /\ timers' = (timers - 1) + AnimateAfter(anim_state)
    /\ UNCHANGED <<self_processes, stats_tree, message>>
    /\ UNCHANGED sched_vars
    /\ UNCHANGED seg_vars

----------------------------------------------------------------------------
(* Specifications *)

(* the window before any button was pressed *)
GuiIdle ==
    /\ self_processes = <<>>
    /\ stats_tree = <<>>
    /\ canvas = <<>>
    /\ anim_state = [per_unit |-> <<>>, index |-> 0]
    /\ timers = 0
    /\ message = "none"

SegIdle ==
    /\ seg_pc = "off"
    /\ seg_in = <<>>
    /\ segs = <<>>
    /\ cur = IdleLabel
    /\ start = 0
    /\ length = 0
    /\ seg_i = 0
    /\ seg_k = 0
    /\ per_unit_list = <<>>

SchedInit ==
    /\ IsValidInput(processes)
    /\ pc = "start"
    /\ procs = <<>>
    /\ n = 0
    /\ remaining = <<>>
    /\ completed = 0
    /\ t = 0
    /\ gantt = <<>>
    /\ ret = NoRet

Init == SchedInit /\ SegIdle /\ GuiIdle

Next ==
    \/ ReturnEmpty
    \/ Setup
    \/ LoopTest
    \/ IdleTick
    \/ RunTick
    \/ Return

Spec == Init /\ [][Next]_vars

(* srtf_scheduling on any list of descriptors with unique pids and          *)
(* arrival >= 0: the function itself validates nothing, a burst may be zero *)
(* or negative                                                              *)
LooseBursts == (0 - MaxDeficit) .. MaxBurst

LooseInit ==
    /\ \E k \in 0 .. MaxLooseProcs :
           \E a \in [1 .. k -> Arrivals], b \in [1 .. k -> LooseBursts] :
               processes = MakeInput(k, a, b)
    /\ pc = "start"
    /\ procs = <<>>
    /\ n = 0
    /\ remaining = <<>>
    /\ completed = 0
    /\ t = 0
    /\ gantt = <<>>
    /\ ret = NoRet
    /\ SegIdle
    /\ GuiIdle

LooseSpec == LooseInit /\ [][Next]_vars

(* build_segments on an arbitrary label sequence *)
SchedIdle ==
    /\ processes = <<>>
    /\ pc = "off"
    /\ procs = <<>>
    /\ n = 0
    /\ remaining = <<>>
    /\ completed = 0
    /\ t = 0
    /\ gantt = <<>>
    /\ ret = NoRet

SegInit ==
    /\ \E k \in 0 .. MaxTraceLen : seg_in \in [1 .. k -> Labels]
    /\ seg_pc = "call"
    /\ segs = <<>>
    /\ cur = IdleLabel
    /\ start = 0
    /\ length = 0
    /\ seg_i = 0
    /\ seg_k = 0
    /\ per_unit_list = <<>>
    /\ SchedIdle
    /\ GuiIdle

SegNext ==
    \/ SegReturnEmpty
    \/ SegBegin
    \/ SegExtend
    \/ SegClose
    \/ SegReturn
    \/ DrawNothing
    \/ ExpandStep
    \/ ExpandDone

SegSpec == SegInit /\ [][SegNext]_vars

(* either function, called on its own *)
CallSpec == (Init \/ SegInit) /\ [][Next \/ SegNext]_vars

(* a queue: k processes that all arrive at time 0, bursts of 1 but for the  *)
(* last one                                                                 *)
QueueInput(k, b) ==
    [i \in 1 .. k |-> [pid |-> PidNames[i], arrival |-> 0, burst |-> IF i = k THEN b ELSE 1]]

(* calls with a valid input of at most MaxLooseProcs processes or a queue *)
QueueInit ==
    /\ \/ \E k \in 0 .. MaxLooseProcs :
              \E a \in [1 .. k -> Arrivals], b \in [1 .. k -> Bursts] :
                  processes = MakeInput(k, a, b)
       \/ \E k \in 1 .. MaxQueue, b \in 1 .. MaxBurst : processes = QueueInput(k, b)
    /\ pc = "start"
    /\ procs = <<>>
    /\ n = 0
    /\ remaining = <<>>
    /\ completed = 0
    /\ t = 0
    /\ gantt = <<>>
    /\ ret = NoRet
    /\ SegIdle
    /\ GuiIdle

QueueSpec == QueueInit /\ [][Next]_vars

(* the window, from its start: buttons, timer callbacks and the calls that  *)
(* on_calculate makes                                                       *)
GuiInit == SchedIdle /\ SegIdle /\ GuiIdle

GuiNext ==
    \/ AddProcess
    \/ ClearAll
    \/ OnCalculateNoData
    \/ OnCalculate
    \/ Setup
    \/ LoopTest
    \/ IdleTick
    \/ RunTick
    \/ Return
    \/ ShowResults
    \/ SegBegin
    \/ SegExtend
    \/ SegClose
    \/ SegReturn
    \/ ExpandStep
    \/ ExpandDone
    \/ StartAnimation
    \/ TimerFires

GuiSpec == GuiInit /\ [][GuiNext]_vars

(* The interpreter keeps executing the call: a step that can be taken is taken *)
FairSpec == Spec /\ WF_vars(Next)

----------------------------------------------------------------------------
(* Vocabulary of the properties *)

(* the body of the loop is about to handle a tick that the trace records *)
AtTick == pc = "body" /\ t < MaxTick

(* processes with arrival <= t and remaining > 0 *)
RunnableNow == { i \in 1 .. n : procs[i].arrival <= t /\ remaining[i] > 0 }

(* runnable processes whose remaining burst is minimal *)
MinRunnable == { i \in RunnableNow : \A j \in RunnableNow : remaining[i] <= remaining[j] }

(* position of a pid in the caller's list *)
InputPos(pid) == CHOOSE k \in 1 .. Len(processes) : processes[k].pid = pid

(* i precedes j: smaller arrival, and for equal arrival earlier in the input *)
Precedes(i, j) ==
    \/ procs[i].arrival < procs[j].arrival
    \/ /\ procs[i].arrival = procs[j].arrival
       /\ InputPos(procs[i].pid) < InputPos(procs[j].pid)

Occurrences(seq, x) == { k \in 1 .. Len(seq) : seq[k] = x }

RECURSIVE SumBurst(_)
SumBurst(ps) ==
    IF ps = <<>> THEN 0 ELSE SumBurst(SubSeq(ps, 1, Len(ps) - 1)) + ps[Len(ps)].burst

MaxOf(S) == CHOOSE x \in S : \A y \in S : y <= x

Returned == pc = "done"

----------------------------------------------------------------------------
(* C1: at every tick at which some process is runnable (arrival <= t and   *)
(* remaining > 0), the entry appended to the trace is the pid of a runnable *)
(* process whose remaining burst is minimal among the runnable ones.        *)
C1_RunsShortestRemaining ==
    [][ (AtTick /\ RunnableNow # {})
            => \E i \in MinRunnable : gantt' = Append(gantt, procs[i].pid) ]_vars

(* C1, below the scan's initial minimum: the same selection rule, for ticks *)
(* at which some runnable process has remaining < MinRemInit.               *)
C1_BelowInitialMinimum ==
    [][ (AtTick /\ \E i \in RunnableNow : remaining[i] < MinRemInit)
            => \E i \in MinRunnable : gantt' = Append(gantt, procs[i].pid) ]_vars

(* C2: when several runnable processes tie on the minimal remaining burst,  *)
(* the process executed at that tick is the tied one with the smallest      *)
(* arrival and, for equal arrivals, the one first in the caller's list.     *)
C2_TieBreakOrder ==
    [][ (AtTick /\ Cardinality(MinRunnable) >= 2)
            => \E i \in MinRunnable :
                   /\ \A j \in MinRunnable \ {i} : Precedes(i, j)
                   /\ gantt' = Append(gantt, procs[i].pid) ]_vars

(* C2, restricted to ticks at which a process is executed: the executed one *)
(* is the first of the tied processes in arrival-then-input order.          *)
C2_TieBreakWhenExecuted ==
    [][ (AtTick /\ Cardinality(MinRunnable) >= 2 /\ gantt' # Append(gantt, IdleLabel))
            => \E i \in MinRunnable :
                   /\ \A j \in MinRunnable \ {i} : Precedes(i, j)
                   /\ gantt' = Append(gantt, procs[i].pid) ]_vars

(* C3: the entry of a tick is "Idle" exactly when no process is runnable at *)
(* that tick, and an Idle tick changes no remaining burst and no completed  *)
(* count: it only advances t by 1.                                          *)
C3_IdleIffNothingRunnable ==
    [][ AtTick
            => /\ (gantt' = Append(gantt, IdleLabel)) <=> (RunnableNow = {})
               /\ (gantt' = Append(gantt, IdleLabel))
                      => (remaining' = remaining /\ completed' = completed /\ t' = t + 1) ]_vars

(* C3, second half alone: an Idle tick only advances t *)
C3_IdleTickFrame ==
    [][ (AtTick /\ gantt' = Append(gantt, IdleLabel))
            => (remaining' = remaining /\ completed' = completed /\ t' = t + 1) ]_vars

(* C4: for every non-empty valid input the loop terminates, and the final   *)
(* trace length is at most the sum of the bursts plus the maximum arrival.  *)
C4_TerminatesWithinBound ==
    /\ (processes # <<>>) => <>Returned
    /\ [](Returned /\ processes # <<>>
            => Len(ret.gantt) <= SumBurst(processes)
                                   + MaxOf({ processes[k].arrival : k \in 1 .. Len(processes) }))

(* C4, partial correctness alone: a call that returns has a trace no longer *)
(* than the sum of the bursts plus the maximum arrival.                     *)
C4_BoundWhenReturned ==
    (Returned /\ processes # <<>>)
        => Len(ret.gantt) <= SumBurst(processes)
                               + MaxOf({ processes[k].arrival : k \in 1 .. Len(processes) })

(* C5: when the call returns, the sum of all burst times plus the number of *)
(* "Idle" entries of the trace equals the trace length.                     *)
C5_Conservation ==
    Returned
        => SumBurst(processes) + Cardinality(Occurrences(ret.gantt, IdleLabel)) = Len(ret.gantt)

(* a returned run of two or more processes with an idle tick in its trace *)
C5_Witness ==
    /\ Returned
    /\ Len(processes) >= 2
    /\ Occurrences(ret.gantt, IdleLabel) # {}

(* C6: in the returned records every process has CT >= arrival + burst and  *)
(* CT <= T, the length of the returned trace.                               *)
C6_CompletionBounds ==
    Returned
        => \A i \in 1 .. Len(ret.procs) :
               /\ ret.procs[i].has
               /\ ret.procs[i].ct >= ret.procs[i].arrival + ret.procs[i].burst
               /\ ret.procs[i].ct <= Len(ret.gantt)

(* a returned run in which one process had to wait and finished before the *)
(* end of the trace, and another finished exactly at arrival + burst        *)
C6_Witness ==
    /\ Returned
    /\ \E i \in 1 .. Len(ret.procs) :
           /\ ret.procs[i].ct > ret.procs[i].arrival + ret.procs[i].burst
           /\ ret.procs[i].ct < Len(ret.gantt)
    /\ \E i \in 1 .. Len(ret.procs) :
           ret.procs[i].ct = ret.procs[i].arrival + ret.procs[i].burst

(* C7: in the returned trace the pid of every process p occurs exactly      *)
(* p.burst times, never at an index smaller than p.arrival, and p's CT is   *)
(* one plus the index of the last entry carrying p's pid.                   *)
C7_TraceMatchesProcess ==
    Returned
        => \A k \in 1 .. Len(processes) :
               LET p == processes[k]
                   occ == Occurrences(ret.gantt, p.pid)
               IN /\ Cardinality(occ) = p.burst
                  /\ \A j \in occ : j - 1 >= p.arrival
                  /\ \E i \in 1 .. Len(ret.procs) :
                         /\ ret.procs[i].pid = p.pid
                         /\ ret.procs[i].has
                         /\ ret.procs[i].ct = (MaxOf(occ) - 1) + 1

(* a returned run in which a process was preempted (its entries in the      *)
(* trace are not consecutive) by a process that arrived after tick 0        *)
C7_Witness ==
    /\ Returned
    /\ \E k \in 1 .. Len(processes) :
           LET occ == Occurrences(ret.gantt, processes[k].pid)
           IN \E a, b \in occ : a < b /\ \E m \in (a + 1) .. (b - 1) :
                  /\ m \notin occ
                  /\ \E q \in 1 .. Len(processes) :
                         /\ processes[q].arrival > 0
                         /\ ret.gantt[m] = processes[q].pid

(* C8: every returned record has TAT = CT - arrival and WT = TAT - burst    *)
(* with WT >= 0: the value TAT - burst is never negative, so clamping to 0  *)
(* never changes WT.                                                        *)
C8_MetricsUnclamped ==
    Returned
        => \A i \in 1 .. Len(ret.procs) :
               /\ ret.procs[i].has
               /\ ret.procs[i].tat = ret.procs[i].ct - ret.procs[i].arrival
               /\ ret.procs[i].wt = ret.procs[i].tat - ret.procs[i].burst
               /\ ret.procs[i].tat - ret.procs[i].burst >= 0
               /\ ret.procs[i].wt >= 0

(* a returned run with a record that waited (WT > 0) and one that did not   *)
C8_Witness ==
    /\ Returned
    /\ \E i \in 1 .. Len(ret.procs) : ret.procs[i].wt > 0
    /\ \E i \in 1 .. Len(ret.procs) : ret.procs[i].wt = 0 /\ ret.procs[i].arrival > 0

(* C9: for a non-empty input the length of the returned trace equals the    *)
(* maximum CT over the records, and the last trace entry is a pid, never    *)
(* "Idle".                                                                  *)
C9_TraceEndsAtLastCompletion ==
    (Returned /\ processes # <<>>)
        => /\ Len(ret.gantt) = MaxOf({ ret.procs[i].ct : i \in 1 .. Len(ret.procs) })
           /\ ret.gantt # <<>>
           /\ ret.gantt[Len(ret.gantt)] # IdleLabel
           /\ ret.gantt[Len(ret.gantt)] \in { processes[k].pid : k \in 1 .. Len(processes) }

(* a returned run of several processes with an idle tick, whose last        *)
(* process to complete is not the last record                               *)
C9_Witness ==
    /\ Returned
    /\ Len(ret.procs) >= 2
    /\ Occurrences(ret.gantt, IdleLabel) # {}
    /\ ret.procs[Len(ret.procs)].ct < Len(ret.gantt)

(* C10: expanding build_segments(trace), each segment's label repeated      *)
(* length times in segment order, reproduces trace exactly, for every label *)
(* sequence, the empty, the all-Idle and the one-element ones included.     *)
C10_SegmentRoundTrip ==
    /\ (seg_pc \in {"built", "drawn"}) => ExpandAll(segs) = seg_in
    /\ (seg_pc = "drawn" /\ TotalUnits(segs) # 0) => per_unit_list = seg_in

(* an expanded trace of several segments, one of them longer than one unit  *)
C10_Witness ==
    /\ seg_pc = "drawn"
    /\ Len(segs) >= 2
    /\ \E k \in 1 .. Len(segs) : segs[k].length >= 2
    /\ per_unit_list = seg_in

(* the cases the statement names: the empty trace, an all-Idle trace of     *)
(* several ticks, a single-element trace                                    *)
C10_WitnessEmpty == seg_pc = "drawn" /\ seg_in = <<>> /\ segs = <<>>
C10_WitnessAllIdle ==
    /\ seg_pc = "drawn"
    /\ Len(seg_in) >= 2
    /\ \A k \in 1 .. Len(seg_in) : seg_in[k] = IdleLabel
    /\ Len(segs) = 1
C10_WitnessSingle == seg_pc = "drawn" /\ Len(seg_in) = 1 /\ Len(segs) = 1

RECURSIVE SumLengths(_)
SumLengths(ss) == IF ss = <<>> THEN 0 ELSE ss[1].length + SumLengths(Tail(ss))

(* C11: for a non-empty label sequence the segments of build_segments are   *)
(* maximal and contiguous: the first starts at 0, every length is >= 1,     *)
(* each start + length is the next start, starts are strictly ascending,    *)
(* the lengths sum to the trace length, and adjacent segments carry         *)
(* different labels.                                                        *)
C11_SegmentsPartition ==
    (seg_pc \in {"built", "drawn"} /\ seg_in # <<>>)
        => /\ segs # <<>>
           /\ segs[1].start = 0
           /\ \A k \in 1 .. Len(segs) : segs[k].length >= 1
           /\ \A k \in 1 .. Len(segs) - 1 :
                  /\ segs[k].start + segs[k].length = segs[k + 1].start
                  /\ segs[k].start < segs[k + 1].start
                  /\ segs[k].label # segs[k + 1].label
           /\ SumLengths(segs) = Len(seg_in)

(* a built list of three segments, one of them longer than one unit *)
C11_Witness ==
    /\ seg_pc = "built"
    /\ Len(segs) >= 3
    /\ \E k \in 1 .. Len(segs) : segs[k].length >= 2

(* pids of the descriptors whose burst is zero or negative *)
NonPositivePids == { processes[k].pid : k \in { j \in 1 .. Len(processes) : processes[j].burst <= 0 } }

(* the loop has been set up *)
InLoop == pc \in {"while", "body"}

(* every process with a positive burst has finished *)
OthersFinished == \A i \in 1 .. n : procs[i].burst > 0 => remaining[i] = 0

(* C13: if the input contains a process with zero or negative burst, that   *)
(* process is never selected and never counted as completed, completed      *)
(* never reaches n, the loop never terminates, and once all other processes *)
(* have finished every further tick appends "Idle".                         *)
C13_NonPositiveBurstNeverEnds ==
    /\ [](NonPositivePids # {}
            => /\ pc \notin {"averages", "done"}
               /\ InLoop => completed < n
               /\ \A k \in 1 .. Len(gantt) : gantt[k] \notin NonPositivePids
               /\ \A i \in 1 .. Len(procs) :
                      procs[i].pid \in NonPositivePids
                          => (~procs[i].has /\ (InLoop => remaining[i] = procs[i].burst)))
    /\ [][ (NonPositivePids # {} /\ AtTick /\ OthersFinished)
               => gantt' = Append(gantt, IdleLabel) ]_vars

(* a process with a negative burst, another process that has run to its    *)
(* end, and two Idle ticks appended after that                              *)
C13_Witness ==
    /\ \E k \in 1 .. Len(processes) : processes[k].burst < 0
    /\ pc = "while"
    /\ t < MaxTick
    /\ \E i \in 1 .. n : procs[i].has /\ procs[i].ct = Len(gantt) - 2
    /\ Len(gantt) >= 3
    /\ gantt[Len(gantt)] = IdleLabel
    /\ gantt[Len(gantt) - 1] = IdleLabel

(* C15: for an empty process list srtf_scheduling returns empty records,    *)
(* avg_wt = 0, avg_tat = 0 and an empty trace without executing any tick,   *)
(* and build_segments of the empty trace returns the empty segment list.    *)
C15_EmptyInputs ==
    /\ (pc # "off" /\ processes = <<>>)
           => /\ pc \in {"start", "done"}
              /\ t = 0
              /\ gantt = <<>>
              /\ Returned => /\ ret.procs = <<>>
                             /\ ret.avg_wt = FloatZero
                             /\ ret.avg_tat = FloatZero
                             /\ ret.gantt = <<>>
    /\ (seg_pc \in {"built", "drawn"} /\ seg_in = <<>>) => segs = <<>>

(* srtf_scheduling has returned from a call on the empty list *)
C15_Witness == Returned /\ processes = <<>> /\ ret.procs = <<>>

(* build_segments has returned from a call on the empty trace *)
C15_WitnessSegments == seg_pc = "built" /\ seg_in = <<>>

(* the loop state exists: Setup has run *)
AfterSetup == pc \in {"while", "body", "averages", "done"}

(* C17: in every state of the loop each remaining burst is between 0 and    *)
(* the burst, changes only by decreasing by exactly 1 on a tick at which    *)
(* that process is executed, and never goes below 0; each completion tick   *)
(* is set exactly once, on the tick the remaining burst becomes 0, and      *)
(* never changes afterwards; completed equals the number of processes whose *)
(* remaining burst is 0.                                                    *)
C17_LoopStateInvariant ==
    /\ [](AfterSetup
            => /\ \A i \in 1 .. n :
                      /\ 0 <= remaining[i]
                      /\ remaining[i] <= procs[i].burst
                      /\ procs[i].has <=> remaining[i] = 0
               /\ completed = Cardinality({ i \in 1 .. n : remaining[i] = 0 }))
    /\ [][ AfterSetup
            => \A i \in 1 .. n :
                   /\ \/ remaining'[i] = remaining[i]
                      \/ /\ remaining'[i] = remaining[i] - 1
                         /\ gantt' = Append(gantt, procs[i].pid)
                         /\ t' = t + 1
                   /\ procs[i].has => procs'[i] = procs[i]
                   /\ (~procs[i].has /\ procs'[i].has)
                          => /\ remaining[i] = 1
                             /\ remaining'[i] = 0
                             /\ procs'[i].ct = t' ]_vars

(* one process has completed at an earlier tick while another one has run   *)
(* for part of its burst                                                    *)
C17_Witness ==
    /\ pc = "while"
    /\ \E i \in 1 .. n : procs[i].has /\ procs[i].ct < t
    /\ \E i \in 1 .. n : 0 < remaining[i] /\ remaining[i] < procs[i].burst

(* the caller's descriptor with the given pid *)
Descriptor(pid) == processes[InputPos(pid)]

Pids == { processes[k].pid : k \in 1 .. Len(processes) }

(* remaining burst of pid at tick k, from the first k entries of the trace *)
RemainingAt(pid, k) ==
    Descriptor(pid).burst - Cardinality({ j \in 1 .. k : gantt[j] = pid })

(* the entry of tick k - 1 is a process that is unfinished after that tick  *)
(* and the entry of tick k is another label                                 *)
SwitchedAwayAt(k) ==
    /\ gantt[k] \in Pids
    /\ RemainingAt(gantt[k], k) > 0
    /\ gantt[k + 1] # gantt[k]

(* C18: if process X is executed at tick t and still has remaining > 0, and *)
(* the entry of tick t+1 is a different label Z, then Z is a process whose  *)
(* arrival equals t+1 and whose remaining burst at t+1 is strictly smaller  *)
(* than X's: no switch on a tie, and never Idle after an unfinished process. *)
C18_PreemptionOnlyByShorterArrival ==
    AfterSetup
        => \A k \in 1 .. Len(gantt) - 1 :
               SwitchedAwayAt(k)
                   => /\ gantt[k + 1] # IdleLabel
                      /\ gantt[k + 1] \in Pids
                      /\ Descriptor(gantt[k + 1]).arrival = k
                      /\ RemainingAt(gantt[k + 1], k) < RemainingAt(gantt[k], k)

(* a finished run in which a running, unfinished process lost the CPU *)
C18_Witness ==
    /\ Returned
    /\ \E k \in 1 .. Len(gantt) - 1 : SwitchedAwayAt(k)

(* C19: for a non-empty valid input the returned records hold exactly one   *)
(* record per input process (same pid, arrival and burst), each with ct,    *)
(* tat and wt set, in ascending arrival order, processes of equal arrival   *)
(* in the caller's input order.                                             *)
C19_RecordsSortedByArrival ==
    (Returned /\ processes # <<>>)
        => /\ Len(ret.procs) = Len(processes)
           /\ \A k \in 1 .. Len(processes) :
                  Cardinality({ i \in 1 .. Len(ret.procs) :
                                    /\ ret.procs[i].pid = processes[k].pid
                                    /\ ret.procs[i].arrival = processes[k].arrival
                                    /\ ret.procs[i].burst = processes[k].burst }) = 1
           /\ \A i \in 1 .. Len(ret.procs) : ret.procs[i].has
           /\ \A i, j \in 1 .. Len(ret.procs) :
                  i < j => \/ ret.procs[i].arrival < ret.procs[j].arrival
                           \/ /\ ret.procs[i].arrival = ret.procs[j].arrival
                              /\ InputPos(ret.procs[i].pid) < InputPos(ret.procs[j].pid)

(* returned records that are neither in input order nor in completion       *)
(* order, two of them with the same arrival                                 *)
C19_Witness ==
    /\ Returned
    /\ \E i \in 1 .. Len(ret.procs) : ret.procs[i].pid # processes[i].pid
    /\ \E i, j \in 1 .. Len(ret.procs) : i < j /\ ret.procs[i].ct > ret.procs[j].ct
    /\ \E i, j \in 1 .. Len(ret.procs) : i < j /\ ret.procs[i].arrival = ret.procs[j].arrival

(* C14: srtf_scheduling has no side effect on its argument: no step of the  *)
(* call changes the caller's list, its order, or the fields and values of   *)
(* any caller-owned descriptor, so the list after the call is the list      *)
(* before it and a second call starts from the same state.                  *)
C14_ArgumentUntouched == [][processes' = processes]_vars

(* a returned call that has written ct, tat and wt and has sorted its       *)
(* records into an order other than the caller's, whose list still holds    *)
(* bare descriptors in the caller's order                                   *)
C14_Witness ==
    /\ Returned
    /\ \E i \in 1 .. Len(ret.procs) : ret.procs[i].has /\ ret.procs[i].pid # processes[i].pid
    /\ \A k \in 1 .. Len(processes) :
           /\ processes[k].pid = PidNames[k]
           /\ DOMAIN processes[k] = {"pid", "arrival", "burst"}

(* ---------------------------------------------------------------------- *)
(* C16                                                                    *)

(* the sums of the fields the returned records carry *)
RECURSIVE RecordedWt(_)
RecordedWt(ps) == IF ps = <<>> THEN 0 ELSE ps[1].wt + RecordedWt(Tail(ps))

RECURSIVE RecordedTat(_)
RecordedTat(ps) == IF ps = <<>> THEN 0 ELSE ps[1].tat + RecordedTat(Tail(ps))

AllContribute ==
    /\ Len(ret.procs) = Len(processes)
    /\ \A i \in 1 .. Len(ret.procs) :
           /\ ret.procs[i].has
           /\ ret.procs[i].tat = ret.procs[i].ct - ret.procs[i].arrival
           /\ ret.procs[i].wt = ret.procs[i].tat - ret.procs[i].burst

(* C16, as stated: for every non-empty valid input with n processes,       *)
(* n * avg_wt equals the sum of the records' WT and n * avg_tat equals the  *)
(* sum of the records' TAT, every process contributing its actual WT and    *)
(* TAT.  The products are computed as the program's language computes them, *)
(* in floating point.                                                       *)
C16_MeanTimesCount ==
    (Returned /\ processes # <<>>) =>
        /\ AllContribute
        /\ FloatMulInt(Len(processes), ret.avg_wt) = IntToFloat(RecordedWt(ret.procs))
        /\ FloatMulInt(Len(processes), ret.avg_tat) = IntToFloat(RecordedTat(ret.procs))

(* C16, amended: for every non-empty valid input with n processes, avg_wt   *)
(* is the float nearest to (sum of the records' WT) / n and avg_tat the     *)
(* float nearest to (sum of the records' TAT) / n, every one of the n       *)
(* processes contributing its actual WT and TAT.                            *)
C16_AveragesAreMeans ==
    (Returned /\ processes # <<>>) =>
        /\ AllContribute
        /\ ret.avg_wt = FloatDiv(RecordedWt(ret.procs), Len(processes))
        /\ ret.avg_tat = FloatDiv(RecordedTat(ret.procs), Len(processes))

(* a call has returned a mean that, multiplied by n, is not the sum *)
C16_Witness ==
    /\ Returned
    /\ processes # <<>>
    /\ RecordedWt(ret.procs) > 0
    /\ FloatMulInt(Len(processes), ret.avg_wt) = IntToFloat(RecordedWt(ret.procs))
    /\ FloatMulInt(Len(processes), ret.avg_tat) # IntToFloat(RecordedTat(ret.procs))

(* ---------------------------------------------------------------------- *)
(* C12                                                                    *)

WellFormed(ps) ==
    /\ \A i \in 1 .. Len(ps) : ps[i].arrival >= 0 /\ ps[i].burst > 0
    /\ \A i, j \in 1 .. Len(ps) : ps[i].pid = ps[j].pid => i = j

(* C12: after any sequence of Add Process / Clear All / Calculate, every    *)
(* descriptor that add_process has stored, and every descriptor that        *)
(* on_calculate passes to srtf_scheduling, has arrival >= 0, burst > 0 and  *)
(* a pid that is unique among the stored processes.                         *)
C12_StoredDescriptorsWellFormed ==
    /\ WellFormed(self_processes)
    /\ WellFormed(processes)

(* ---------------------------------------------------------------------- *)
(* C20                                                                    *)

(* the blocks on the canvas, in drawing order *)
Blocks == SelectSeq(canvas, LAMBDA item : item.kind = "block")

MarkerCount == Len(SelectSeq(canvas, LAMBDA item : item.kind = "markers"))

(* C20: at most one _animate_step timer chain is pending at any time; the   *)
(* units of the trace are drawn once each, in index order; the time markers *)
(* are drawn at most once and only after the last unit; after Clear All (the*)
(* results table is empty until the next Calculate) no block is drawn.     *)
(* This is to hold for any interleaving of Calculate and Clear All with     *)
(* pending timer callbacks.                                                 *)
C20_OneTimerChain ==
    /\ timers <= 1
    /\ \A k \in 1 .. Len(Blocks) :
           /\ Blocks[k].index = k - 1
           /\ k <= Len(anim_state.per_unit)
           /\ Blocks[k].label = anim_state.per_unit[k]
    /\ MarkerCount <= 1
    /\ MarkerCount = 1 => canvas[Len(canvas)].kind = "markers"
    /\ stats_tree = <<>> => Blocks = <<>>

====
